---- MODULE Spec2Model ----
(***************************************************************************)
(* FishSim: the topographic map generator of src/src/topography.rs.        *)
(*                                                                         *)
(* Numbers.  The source computes in f64.  The model keeps every quantity   *)
(* exact by scaling it to an integer:                                      *)
(*   - a noise sample is an integer k standing for k / Res;                *)
(*   - a depth is an integer standing for depth * DepthUnit, where         *)
(*     DepthUnit = Res * (2*NOISE_MAX - 2*NOISE_LAND_MIN) is the           *)
(*     denominator of the remapping in From<NoiseDepth> for Depth;         *)
(*   - a rate is an integer number of hundredths (0.45 is 45), and so is   *)
(*     the draw veg_random = random_range(0..=100) / 100.                  *)
(***************************************************************************)
EXTENDS Integers, Sequences, FiniteSets, TLC

\* ---------------------------------------------------------------- bounds
MaxWidth == 2
MaxHeight == 2
MaxCells == 4
Res == 100
MaxCellsDet == 2
RawWords == 3
MaxFish == 2
MaxInitial == 1
MaxSpawn == 1
MaxTicks == 12

\* ------------------------------------------------------------- constants
DEPTH_MIN == 0
DEPTH_MAX == 15
NOISE_MIN == -1
NOISE_MAX == 1
\* main: const SEED
SEED == 42
\* 2 * NOISE_LAND_MIN, NOISE_LAND_MIN = NOISE_MIN + 0.5
NOISE_LAND_MIN2 == 2 * NOISE_MIN + 1

DepthUnit == Res * (2 * NOISE_MAX - NOISE_LAND_MIN2)

VegetationKinds == <<"Grass", "Reeds", "Mats">>

VegetationRate(v, r, a) == [vegetation |-> v, rate |-> r, adjacency_rate |-> a]

DEPTH_RANGES ==
  << [min |-> DEPTH_MIN, max |-> 5, name |-> "SuperShallow",
      vegetation_rates |-> << VegetationRate("Grass", 10, 45),
                              VegetationRate("Reeds", 20, 75),
                              VegetationRate("Mats", 10, 75) >>],
     [min |-> 5, max |-> 7, name |-> "Shallow",
      vegetation_rates |-> << VegetationRate("Grass", 20, 65),
                              VegetationRate("Reeds", 20, 40),
                              VegetationRate("Mats", 20, 75) >>],
     [min |-> 7, max |-> 10, name |-> "MidDepth",
      vegetation_rates |-> << VegetationRate("Grass", 12, 45),
                              VegetationRate("Reeds", 0, 0),
                              VegetationRate("Mats", 12, 45) >>],
     [min |-> 10, max |-> DEPTH_MAX, name |-> "Deep",
      vegetation_rates |-> << VegetationRate("Grass", 5, 20),
                              VegetationRate("Reeds", 0, 0),
                              VegetationRate("Mats", 5, 20) >>] >>

\* ------------------------------------------------------- pure functions

\* Iterator::find over a sequence whose i-th element says whether the
\* closure holds of the i-th item: the index of the first hit, 0 when none
\* (find returning None).
Find(hits) ==
  IF \E i \in 1..Len(hits) : hits[i]
    THEN CHOOSE i \in 1..Len(hits) : hits[i] /\ \A j \in 1..(i - 1) : ~hits[j]
    ELSE 0

\* matches!(value, ident) where ident is a local variable: the pattern is an
\* identifier pattern, which binds a fresh name and matches every value.
MatchesIdent(value, ident) == TRUE

\* NoiseDepth::is_land: self.0 < NOISE_LAND_MIN, i.e. k/Res < NOISE_LAND_MIN2/2
is_land(k) == 2 * k < NOISE_LAND_MIN2 * Res

\* From<NoiseDepth> for Depth, scaled by DepthUnit
DepthFromBadOffset(k) ==
  IF is_land(k)
    THEN (DEPTH_MIN - 1) * DepthUnit
    ELSE (2 * k - 2 * NOISE_MIN * Res) * (DEPTH_MAX - DEPTH_MIN) + DEPTH_MIN * DepthUnit

DepthFrom(k) ==
  IF is_land(k)
    THEN (DEPTH_MIN - 1) * DepthUnit
    ELSE (2 * k - NOISE_LAND_MIN2 * Res) * (DEPTH_MAX - DEPTH_MIN) + DEPTH_MIN * DepthUnit

\* the closure of Depth::depth_range: self.0 >= x.min && self.0 <= x.max
InRangeHalfOpen(d, r) == d >= r.min * DepthUnit /\ d < r.max * DepthUnit

InRange(d, r) == d >= r.min * DepthUnit /\ d <= r.max * DepthUnit

\* Depth::depth_range: index into DEPTH_RANGES of the first band holding d;
\* 0 stands for the None on which expect("Depth range must exist") aborts.
depth_range(d) ==
  Find([b \in 1..Len(DEPTH_RANGES) |-> InRange(d, DEPTH_RANGES[b])])

\* DepthRange::get_vegetation_rate: the entry is found with
\* matches!(&x.vegetation, veg), veg being the parameter.
get_vegetation_rate(range, veg, adjacent) ==
  LET i == Find([j \in 1..Len(range.vegetation_rates) |->
                     MatchesIdent(range.vegetation_rates[j].vegetation, veg)])
      rates == range.vegetation_rates[i]
  IN IF adjacent THEN rates.adjacency_rate ELSE rates.rate

Land == [kind |-> "Land"]

\* TopographicWaterRegion::new
Water(bottom, vegetation, structure, depth) ==
  [kind |-> "Water", bottom |-> bottom, vegetation |-> vegetation,
   structure |-> structure, depth |-> depth]

\* TopographicWaterRegion::has_vegetation_type
has_vegetation_type(water, vegetation_type) ==
  IF water.vegetation # "None"
    THEN MatchesIdent(water.vegetation, vegetation_type)
    ELSE FALSE

\* get_adjacent.  Indices are 0-based as in the source.  The result is
\* [some, index, ok]: some = FALSE is None; ok = FALSE is the abort of
\* expect("Indexed element must exist").
NoNeighbor == [some |-> FALSE, index |-> -1, ok |-> TRUE]

AdjacentIndexNoBack(w, px, py, direction) ==
  IF direction = "Up" THEN (py * w) + px ELSE (py * w) + px - 1

AdjacentIndex(w, px, py, direction) ==
  IF direction = "Up" THEN ((py - 1) * w) + px ELSE (py * w) + px - 1

get_adjacent(map, w, px, py, direction) ==
  IF py = 0 /\ direction = "Up" THEN NoNeighbor
  ELSE IF px = 0 /\ direction = "Left" THEN NoNeighbor
  ELSE LET index == AdjacentIndex(w, px, py, direction)
       IN [some |-> TRUE, index |-> index,
           ok |-> index >= 0 /\ index < Len(map)]

\* the region a successful get_adjacent refers to
At(map, index) == map[index + 1]

\* generate, lines 394-406: the adjacency flag
NeighborHas(map, nb, vt) ==
  IF At(map, nb.index).kind = "Land" THEN FALSE
  ELSE has_vegetation_type(At(map, nb.index), vt)

AdjacentVegetationLandFallsBack(map, up, left, vt) ==
  IF up.some /\ At(map, up.index).kind = "Water" THEN NeighborHas(map, up, vt)
  ELSE IF left.some THEN NeighborHas(map, left, vt)
  ELSE FALSE

AdjacentVegetationDefaultTrue(map, up, left, vt) ==
  IF up.some THEN NeighborHas(map, up, vt)
  ELSE IF left.some THEN NeighborHas(map, left, vt)
  ELSE TRUE

AdjacentVegetation(map, up, left, vt) ==
  IF up.some THEN NeighborHas(map, up, vt)
  ELSE IF left.some THEN NeighborHas(map, left, vt)
  ELSE FALSE

\* generate, lines 379-423: the water branch of the loop body for cell
\* (px, py) with noise sample k, kind draw kd = random_range(0..3) and
\* rate draw rd = random_range(0..=100).
WaterCell(map, w, px, py, k, kd, rd) ==
  LET d == DepthFrom(k)
      up == get_adjacent(map, w, px, py, "Up")
      left == get_adjacent(map, w, px, py, "Left")
      looked == {nb.index : nb \in {n \in {up, left} : n.some}}
      vt == VegetationKinds[kd + 1]
      band == depth_range(d)
  IN IF ~up.ok \/ ~left.ok
       THEN [panic |-> "Indexed element must exist", lookups |-> looked]
     ELSE IF band = 0
       THEN [panic |-> "Depth range must exist", lookups |-> looked]
     ELSE LET adj == AdjacentVegetation(map, up, left, vt)
              rate == get_vegetation_rate(DEPTH_RANGES[band], vt, adj)
              vegetation == IF rd <= rate THEN vt ELSE "None"
          IN [panic |-> "none", lookups |-> looked, veg_type |-> vt,
              adjacent |-> adj, rate |-> rate,
              region |-> Water("Hard", vegetation, "None", d)]

\* Display: one glyph per region (named by code point; colour is dropped)
VegetationGlyph(v) ==
  IF v = "Grass" THEN "U+201E" ELSE IF v = "Reeds" THEN "U+00A5" ELSE "U+00AC"

StructureGlyph(s) ==
  IF s = "ChunkRock" THEN "U+00A4" ELSE IF s = "Boulder" THEN "U+00AE"
  ELSE IF s = "Timber" THEN "U+02DC" ELSE "U+00D7"

DepthRangeGlyph(name) ==
  IF name = "Deep" THEN "U+2588" ELSE IF name = "MidDepth" THEN "U+2593"
  ELSE IF name = "Shallow" THEN "U+2592" ELSE "U+2591"

\* Display for TopographicRegion; "" stands for the abort of Depth's Display
\* (depth_range's expect) on a depth no band holds.
Glyph(region) ==
  IF region.kind = "Land" THEN "#"
  ELSE IF region.vegetation # "None" THEN VegetationGlyph(region.vegetation)
  ELSE IF region.structure # "None" THEN StructureGlyph(region.structure)
  ELSE IF depth_range(region.depth) = 0 THEN ""
  ELSE DepthRangeGlyph(DEPTH_RANGES[depth_range(region.depth)].name)

\* Display for TopographicMap, line 437: the index of cell (px, py)
RenderIndexTransposed(w, px, py) == (px * w) + py

RenderIndex(w, px, py) == (py * w) + px

\* ------------------------------------------------------------ the state
VARIABLES
  width, height,        \* arguments of TopographicMap::new
  pc,                   \* "gen", "render", "done", "aborted"; for the classifier
                        \* alone "classify", "land", "water", "banded"
  x, y,                 \* loop variables of generate
  data,                 \* the Vec<TopographicRegion> being built
  panic,                \* "none" or the message of the expect that aborted
  step,                 \* what the last loop body did: "none", "land", "water"
  cx, cy,               \* the cell the last loop body processed
  veg_type,             \* its locals: the candidate kind,
  adjacent_vegetation,  \*   the adjacency flag,
  vegetation_rate,      \*   the rate compared against veg_random,
  lookups,              \*   the indices its get_adjacent calls computed
  out,                  \* what Display has written
  ry,                   \* loop variable of Display
  noise_value, depth, band,  \* the classifier alone: NoiseDepth, Depth, band index
  seed,                 \* two runs of TopographicMap::new on one seed:
  runs,                 \*   the state of each run,
  perlin,               \*   the values Perlin::get has returned, by (seed, x, y),
  chacha,               \*   the words ChaCha8Rng has produced, by (key, position)
  fish, next_id,        \* FishSimulation: its fields; rng is the source of the
  death_rate,           \*   outcomes of random_bool, which a step draws from
  spawn_threshold,      \*   the outcomes the rate allows; death_rate is in
  spawn_count,          \*   hundredths
  history

vars == << width, height, pc, x, y, data, panic, step, cx, cy, veg_type,
           adjacent_vegetation, vegetation_rate, lookups, out, ry,
           noise_value, depth, band, seed, runs, perlin, chacha,
           fish, next_id, death_rate, spawn_threshold, spawn_count, history >>

genLocals == << step, cx, cy, veg_type, adjacent_vegetation, vegetation_rate, lookups >>
renderVars == << out, ry >>
classifyVars == << noise_value, depth, band >>
detVars == << seed, runs, perlin, chacha >>
fishVars == << fish, next_id, death_rate, spawn_threshold, spawn_count, history >>

\* Noise samples fed to generate: a land sample, the shallowest water sample
\* (depth DEPTH_MIN, SuperShallow) and the deepest (depth DEPTH_MAX, Deep).
NoiseSamples == { NOISE_MIN * Res, -(Res \div 2), NOISE_MAX * Res }

\* Values of random_range(0..=100) fed to generate: both ends of the range
\* and, for every rate of the table, the rate and the value just above it.
TableRates ==
  UNION { { DEPTH_RANGES[b].vegetation_rates[i].rate,
            DEPTH_RANGES[b].vegetation_rates[i].adjacency_rate } :
          b \in 1..Len(DEPTH_RANGES), i \in 1..Len(VegetationKinds) }

RateDraws == {0, 100} \cup TableRates \cup { r + 1 : r \in TableRates }

\* -------------------------------------------------- generate and Display
InitNoRuns == seed = 0 /\ runs = << >> /\ perlin = {} /\ chacha = {}

InitNoFish ==
  /\ fish = << >> /\ next_id = 0 /\ death_rate = 0
  /\ spawn_threshold = 0 /\ spawn_count = 0 /\ history = << >>

InitLocals ==
  /\ step = "none" /\ cx = 0 /\ cy = 0 /\ veg_type = "None"
  /\ adjacent_vegetation = FALSE /\ vegetation_rate = 0 /\ lookups = {}

Init ==
  /\ width \in 0..MaxWidth
  /\ height \in 0..MaxHeight
  /\ width * height <= MaxCells
  /\ pc = "gen"
  /\ x = 0 /\ y = 0
  /\ data = << >>
  /\ panic = "none"
  /\ InitLocals
  /\ out = << >> /\ ry = 0
  /\ noise_value = 0 /\ depth = 0 /\ band = 0
  /\ InitNoRuns
  /\ InitNoFish

\* loop body, lines 376-377: the sample is land
GenLand ==
  /\ pc = "gen" /\ y < height /\ x < width
  /\ \E k \in NoiseSamples :
       /\ is_land(k)
       /\ data' = Append(data, Land)
       /\ step' = "land" /\ cx' = x /\ cy' = y
       /\ veg_type' = "None" /\ adjacent_vegetation' = FALSE
       /\ vegetation_rate' = 0 /\ lookups' = {}
  /\ x' = x + 1
  /\ UNCHANGED << width, height, pc, y, panic, renderVars, classifyVars, detVars, fishVars >>

\* loop body, lines 378-424: the sample is water
GenWater ==
  /\ pc = "gen" /\ y < height /\ x < width
  /\ \E k \in NoiseSamples, kd \in 0..2, rd \in RateDraws :
       /\ ~is_land(k)
       /\ LET c == WaterCell(data, width, x, y, k, kd, rd)
          IN /\ cx' = x /\ cy' = y /\ lookups' = c.lookups
             /\ IF c.panic # "none"
                  THEN /\ panic' = c.panic /\ pc' = "aborted"
                       /\ UNCHANGED << data, x, step, veg_type,
                                       adjacent_vegetation, vegetation_rate >>
                  ELSE /\ data' = Append(data, c.region)
                       /\ step' = "water"
                       /\ veg_type' = c.veg_type
                       /\ adjacent_vegetation' = c.adjacent
                       /\ vegetation_rate' = c.rate
                       /\ x' = x + 1
                       /\ UNCHANGED << panic, pc >>
  /\ UNCHANGED << width, height, y, renderVars, classifyVars, detVars, fishVars >>

\* line 371: the inner loop is exhausted
GenNextRow ==
  /\ pc = "gen" /\ y < height /\ x = width
  /\ x' = 0 /\ y' = y + 1
  /\ UNCHANGED << width, height, pc, data, panic, genLocals, renderVars, classifyVars, detVars, fishVars >>

\* line 370 exhausted, line 428 and TopographicMap::new; the locals of the
\* loop body are gone; main then prints the map
GenReturn ==
  /\ pc = "gen" /\ y = height
  /\ pc' = "render"
  /\ step' = "none" /\ cx' = 0 /\ cy' = 0 /\ veg_type' = "None"
  /\ adjacent_vegetation' = FALSE /\ vegetation_rate' = 0 /\ lookups' = {}
  /\ UNCHANGED << width, height, x, y, data, panic, renderVars, classifyVars, detVars, fishVars >>

\* Display for TopographicMap, lines 434-441: the inner loop over one row.
\* The glyphs of cells 0..n-1 of row py; "abort: <message>" in place of the
\* glyphs when an expect aborts.
RECURSIVE RowGlyphs(_, _, _, _)
RowGlyphs(map, w, py, n) ==
  IF n = 0 THEN << >>
  ELSE LET before == RowGlyphs(map, w, py, n - 1)
           index == RenderIndex(w, n - 1, py)
       IN IF before # << >> /\ before[1] \in {"abort: Indexed element must exist",
                                              "abort: Depth range must exist"}
            THEN before
          ELSE IF index < 0 \/ index >= Len(map)
            THEN << "abort: Indexed element must exist" >>
          ELSE IF Glyph(At(map, index)) = ""
            THEN << "abort: Depth range must exist" >>
          ELSE Append(before, Glyph(At(map, index)))

\* lines 433-444: one iteration of the outer loop, a row and its writeln!(f)
RenderRow ==
  /\ pc = "render" /\ ry < height
  /\ LET row == RowGlyphs(data, width, ry, width)
     IN IF row # << >> /\ row[1] = "abort: Indexed element must exist"
          THEN /\ panic' = "Indexed element must exist" /\ pc' = "aborted"
               /\ UNCHANGED << out, ry >>
        ELSE IF row # << >> /\ row[1] = "abort: Depth range must exist"
          THEN /\ panic' = "Depth range must exist" /\ pc' = "aborted"
               /\ UNCHANGED << out, ry >>
        ELSE /\ out' = out \o row \o << "\n" >>
             /\ ry' = ry + 1
             /\ UNCHANGED << panic, pc >>
  /\ UNCHANGED << width, height, x, y, data, genLocals, classifyVars, detVars, fishVars >>

\* line 446: Ok(())
RenderDone ==
  /\ pc = "render" /\ ry = height
  /\ pc' = "done"
  /\ UNCHANGED << width, height, x, y, data, panic, genLocals, renderVars, classifyVars, detVars, fishVars >>

Next ==
  \/ GenLand
  \/ GenWater
  \/ GenNextRow
  \/ GenReturn
  \/ RenderRow
  \/ RenderDone

Spec == Init /\ [][Next]_vars

\* ------------------------------------------------- the classifier alone
\* NoiseDepth::is_land, From<NoiseDepth> for Depth and Depth::depth_range
\* applied to every noise sample k/Res of [NOISE_MIN, NOISE_MAX].
InitDepth ==
  /\ noise_value \in (NOISE_MIN * Res)..(NOISE_MAX * Res)
  /\ pc = "classify"
  /\ depth = 0 /\ band = 0
  /\ width = 0 /\ height = 0 /\ x = 0 /\ y = 0
  /\ data = << >>
  /\ panic = "none"
  /\ InitLocals
  /\ out = << >> /\ ry = 0
  /\ InitNoRuns
  /\ InitNoFish

genVars == << width, height, x, y, data, genLocals, renderVars >>

\* generate, line 376: is_land holds
ClassifyLand ==
  /\ pc = "classify" /\ is_land(noise_value)
  /\ pc' = "land"
  /\ UNCHANGED << genVars, panic, classifyVars, detVars, fishVars >>

\* generate, line 379: Depth::from
ClassifyWater ==
  /\ pc = "classify" /\ ~is_land(noise_value)
  /\ depth' = DepthFrom(noise_value)
  /\ pc' = "water"
  /\ UNCHANGED << genVars, panic, noise_value, band, detVars, fishVars >>

\* generate, line 409: depth.depth_range()
LookupBand ==
  /\ pc = "water"
  /\ band' = depth_range(depth)
  /\ IF depth_range(depth) = 0
       THEN panic' = "Depth range must exist" /\ pc' = "aborted"
       ELSE panic' = panic /\ pc' = "banded"
  /\ UNCHANGED << genVars, noise_value, depth, detVars, fishVars >>

NextDepth ==
  \/ ClassifyLand
  \/ ClassifyWater
  \/ LookupBand

SpecDepth == InitDepth /\ [][NextDepth]_vars

\* ------------------------------------------ two runs on the same seed
\* TopographicMap::new run twice, one run after the other, on the same (seed, width,
\* height, scale).  Perlin::new(seed).get and the ChaCha8 stream are library
\* functions of their inputs: the model samples a value the first time a
\* point (or a stream position) is read and returns the same value to every
\* later read of it.  A stream word takes RawWords values.

Sampled(table, key) == \E e \in table : e[1] = key
Lookup(table, key) == (CHOOSE e \in table : e[1] = key)[2]

\* line 365: ChaCha8Rng::seed_from_u64(seed.into()); the key of run r's stream
RngKeyFromEntropy(r, sd) == << "entropy", r >>

RngKey(r, sd) == << "seed", sd >>

\* lines 367, 372-374: Perlin::new(seed).get([x * scale, y * scale])
PerlinKey(sd, px, py) == << sd, px, py >>

\* rng.random_range(lo..=hi) of one stream word (widening multiply)
random_range(word, lo, hi) == lo + ((word * (hi - lo + 1)) \div RawWords)

\* Noise samples fed to the two runs: a land sample and a SuperShallow one
DetNoise == { NOISE_MIN * Res, -(Res \div 2) }

\* Display for TopographicMap, whole: rows 0..n-1, each with its terminator;
\* << "abort: ..." >> when an expect aborts
RECURSIVE RenderRows(_, _, _)
RenderRows(map, w, n) ==
  IF n = 0 THEN << >>
  ELSE LET before == RenderRows(map, w, n - 1)
           row == RowGlyphs(map, w, n - 1, w)
           Aborted(t) == t # << >> /\ t[1] \in {"abort: Indexed element must exist",
                                                "abort: Depth range must exist"}
       IN IF Aborted(before) THEN before
          ELSE IF Aborted(row) THEN row
          ELSE before \o row \o << "\n" >>

\* Seeds given to TopographicMap::new: main's and one other
Seeds == { 0, SEED }

\* TopographicMap::new is synchronous: the second run starts when the first
\* has returned and its map has been displayed (or it has aborted)
Turn(r) == r = 1 \/ runs[1].pc \in {"done", "aborted"}

NewRun == [pc |-> "gen", x |-> 0, y |-> 0, data |-> << >>, rng |-> 0,
           out |-> << >>, panic |-> "none"]

InitDet ==
  /\ seed \in Seeds
  /\ width \in 0..MaxWidth
  /\ height \in 0..MaxHeight
  /\ width * height <= MaxCellsDet
  /\ runs = [r \in 1..2 |-> NewRun]
  /\ perlin = {} /\ chacha = {}
  /\ pc = "runs"
  /\ x = 0 /\ y = 0 /\ data = << >> /\ panic = "none"
  /\ InitLocals
  /\ out = << >> /\ ry = 0
  /\ noise_value = 0 /\ depth = 0 /\ band = 0
  /\ InitNoFish

oneRunVars0 == << width, height, pc, x, y, data, panic, genLocals, renderVars,
                  classifyVars >>

oneRunVars == << width, height, pc, x, y, data, panic, genLocals, renderVars,
                 classifyVars, fishVars >>

\* the value a read of `key` returns, and the table after the read
Reads(table, table2, key, v) ==
  /\ Sampled(table, key) => v = Lookup(table, key)
  /\ table2 = table \cup { << key, v >> }

\* loop body of run r, lines 376-377
DetLand(r) ==
  /\ pc = "runs" /\ Turn(r) /\ runs[r].pc = "gen"
  /\ runs[r].y < height /\ runs[r].x < width
  /\ \E k \in DetNoise :
       /\ Reads(perlin, perlin', PerlinKey(seed, runs[r].x, runs[r].y), k)
       /\ is_land(k)
       /\ runs' = [runs EXCEPT ![r].data = Append(@, Land), ![r].x = @ + 1]
  /\ UNCHANGED << oneRunVars, seed, chacha >>

\* loop body of run r, lines 378-424: two stream words are consumed
DetWater(r) ==
  /\ pc = "runs" /\ Turn(r) /\ runs[r].pc = "gen"
  /\ runs[r].y < height /\ runs[r].x < width
  /\ \E k \in DetNoise, w1 \in 0..(RawWords - 1), w2 \in 0..(RawWords - 1) :
       /\ Reads(perlin, perlin', PerlinKey(seed, runs[r].x, runs[r].y), k)
       /\ ~is_land(k)
       /\ Sampled(chacha, << RngKey(r, seed), runs[r].rng >>) =>
            w1 = Lookup(chacha, << RngKey(r, seed), runs[r].rng >>)
       /\ Sampled(chacha, << RngKey(r, seed), runs[r].rng + 1 >>) =>
            w2 = Lookup(chacha, << RngKey(r, seed), runs[r].rng + 1 >>)
       /\ chacha' = chacha \cup { << << RngKey(r, seed), runs[r].rng >>, w1 >>,
                                  << << RngKey(r, seed), runs[r].rng + 1 >>, w2 >> }
       /\ LET c == WaterCell(runs[r].data, width, runs[r].x, runs[r].y, k,
                             random_range(w1, 0, 2), random_range(w2, 0, 100))
          IN IF c.panic # "none"
               THEN runs' = [runs EXCEPT ![r].panic = c.panic, ![r].pc = "aborted",
                                         ![r].rng = @ + 2]
               ELSE runs' = [runs EXCEPT ![r].data = Append(@, c.region),
                                         ![r].x = @ + 1, ![r].rng = @ + 2]
  /\ UNCHANGED << oneRunVars, seed >>

\* line 371 of run r: the inner loop is exhausted
DetNextRow(r) ==
  /\ pc = "runs" /\ Turn(r) /\ runs[r].pc = "gen"
  /\ runs[r].y < height /\ runs[r].x = width
  /\ runs' = [runs EXCEPT ![r].x = 0, ![r].y = @ + 1]
  /\ UNCHANGED << oneRunVars, seed, perlin, chacha >>

\* line 428 of run r and TopographicMap::new
DetReturn(r) ==
  /\ pc = "runs" /\ Turn(r) /\ runs[r].pc = "gen"
  /\ runs[r].y = height
  /\ runs' = [runs EXCEPT ![r].pc = "render"]
  /\ UNCHANGED << oneRunVars, seed, perlin, chacha >>

\* Display for TopographicMap of run r's map
DetRender(r) ==
  /\ pc = "runs" /\ Turn(r) /\ runs[r].pc = "render"
  /\ LET text == RenderRows(runs[r].data, width, height)
     IN IF text # << >> /\ text[1] = "abort: Indexed element must exist"
          THEN runs' = [runs EXCEPT ![r].panic = "Indexed element must exist",
                                    ![r].pc = "aborted"]
        ELSE IF text # << >> /\ text[1] = "abort: Depth range must exist"
          THEN runs' = [runs EXCEPT ![r].panic = "Depth range must exist",
                                    ![r].pc = "aborted"]
        ELSE runs' = [runs EXCEPT ![r].out = text, ![r].pc = "done"]
  /\ UNCHANGED << oneRunVars, seed, perlin, chacha >>

NextDet ==
  \E r \in 1..2 :
    \/ DetLand(r)
    \/ DetWater(r)
    \/ DetNextRow(r)
    \/ DetReturn(r)
    \/ DetRender(r)

SpecDet == InitDet /\ [][NextDet]_vars

\* --------------------------------------------- the fish simulation
\* src/src/dioxus_app.rs: FishSimulation, stepped by the "Step" button and
\* the autoplay loop, which copy the three settings into it before the step.

\* Fish::new
NewFish(id) == [id |-> id, age |-> 0, alive |-> TRUE]

\* the outcomes rng.random_bool(p) can have, p in hundredths
random_bool(p) == IF p = 0 THEN {FALSE} ELSE IF p = 100 THEN {TRUE} ELSE BOOLEAN

\* Fish::step; died is the outcome of rng.random_bool(death_rate)
FishStepLateLimit(f, died) ==
  LET age == f.age + 1
  IN [f EXCEPT !.age = age, !.alive = IF died \/ age > 11 THEN FALSE ELSE @]

FishStep(f, died) ==
  LET age == f.age + 1
  IN [f EXCEPT !.age = age, !.alive = IF died \/ age > 10 THEN FALSE ELSE @]

\* FishSimulation::step, lines 62-66: every fish that is alive is stepped
StepAll(fs, died) ==
  [i \in 1..Len(fs) |-> IF fs[i].alive THEN FishStep(fs[i], died[i]) ELSE fs[i]]

\* FishSimulation::spawn_fish
RECURSIVE spawn_fish(_, _, _)
spawn_fish(fs, id, count) ==
  IF count = 0 THEN fs
  ELSE spawn_fish(Append(fs, NewFish(id)), id + 1, count - 1)

\* FishSimulation::population_count
population_count(fs) == Cardinality({ i \in 1..Len(fs) : fs[i].alive })

\* the settings of the front-end: the default death rate 0.1 (either outcome
\* of random_bool), the spawn thresholds "never", "when no fish is alive" and
\* "whenever a fish is missing", and the spawn counts
DeathRates == {10}
Thresholds == {0, 1, MaxFish}
SpawnCounts == 0..MaxSpawn

\* FishSimulation::new_with_seed
InitFish ==
  /\ \E initial_count \in 0..MaxInitial :
       /\ fish = spawn_fish(<< >>, 0, initial_count)
       /\ next_id = initial_count
       /\ history = << initial_count >>
  /\ death_rate \in DeathRates
  /\ spawn_threshold \in Thresholds
  /\ spawn_count \in SpawnCounts
  /\ pc = "fish"
  /\ InitNoRuns
  /\ width = 0 /\ height = 0 /\ x = 0 /\ y = 0
  /\ data = << >>
  /\ panic = "none"
  /\ InitLocals
  /\ out = << >> /\ ry = 0
  /\ noise_value = 0 /\ depth = 0 /\ band = 0

\* App, lines 131-135 and 108-112: the settings are copied, then
\* FishSimulation::step runs: the fish loop, the spawn, the history
FishSimulationStep ==
  /\ pc = "fish"
  /\ Len(history) < MaxTicks
  /\ \E dr \in DeathRates, st \in Thresholds, sc \in SpawnCounts :
       /\ Len(fish) + sc <= MaxFish
       /\ death_rate' = dr /\ spawn_threshold' = st /\ spawn_count' = sc
       /\ \E died \in [1..Len(fish) -> BOOLEAN] :
            /\ \A i \in 1..Len(fish) :
                 died[i] \in (IF fish[i].alive THEN random_bool(dr) ELSE {FALSE})
            /\ LET stepped == StepAll(fish, died)
                   alive_count == population_count(stepped)
                   spawned == IF alive_count < st
                                THEN spawn_fish(stepped, next_id, sc)
                                ELSE stepped
               IN /\ fish' = spawned
                  /\ next_id' = next_id + (Len(spawned) - Len(stepped))
                  /\ history' = Append(history, population_count(spawned))
  /\ UNCHANGED << oneRunVars0, detVars >>

NextFish == FishSimulationStep

SpecFish == InitFish /\ [][NextFish]_vars

\* ------------------------------------------------------------ the claims

\* the entry of kind v in band b, by the kind's name
EntryOf(b, v) ==
  LET i == CHOOSE j \in 1..Len(VegetationKinds) :
             DEPTH_RANGES[b].vegetation_rates[j].vegetation = v
  IN DEPTH_RANGES[b].vegetation_rates[i]

IsWaterWith(region, v) == region.kind = "Water" /\ region.vegetation = v
IsVegetatedWater(region) == region.kind = "Water" /\ region.vegetation # "None"

\* the regions above and left of the last processed cell
UpOfLast == At(data, ((cy - 1) * width) + cx)
LeftOfLast == At(data, (cy * width) + cx - 1)
Last == data[Len(data)]

\* C1: no water cell carries a vegetation kind whose base rate and adjacency
\* rate are both 0 in the cell's depth band (Reeds in MidDepth and Deep).
C1_NoDisabledVegetation ==
  \A i \in 1..Len(data) :
    data[i].kind = "Water" /\ depth_range(data[i].depth) # 0 =>
      \A v \in {"Grass", "Reeds", "Mats"} :
        LET e == EntryOf(depth_range(data[i].depth), v)
        IN e.rate = 0 /\ e.adjacency_rate = 0 => data[i].vegetation # v

\* C2: the adjacency flag of a water cell is true only if the consulted
\* neighbor (up, or left on the first row) is water bearing the candidate
\* kind; a neighbor bearing another kind yields adjacent = false.
C2_AdjacentOnlySameKind ==
  step = "water" /\ adjacent_vegetation =>
    IF cy > 0 THEN IsWaterWith(UpOfLast, veg_type)
    ELSE cx > 0 /\ IsWaterWith(LeftOfLast, veg_type)

\* C3: the rate compared against the draw is the candidate kind's own entry
\* in the cell's band: adjacency_rate when adjacent, else the base rate.
C3_RateOfCandidateKind ==
  step = "water" =>
    LET e == EntryOf(depth_range(Last.depth), veg_type)
    IN vegetation_rate = IF adjacent_vegetation THEN e.adjacency_rate ELSE e.rate

\* C4 as claimed: at (x>0, y>0) with a land up-neighbor, the flag is decided
\* by the left-neighbor: true exactly when it is water bearing the candidate.
C4_LandUpFallsBackToLeft ==
  step = "water" /\ cx > 0 /\ cy > 0 /\ UpOfLast.kind = "Land" =>
    (adjacent_vegetation <=> IsWaterWith(LeftOfLast, veg_type))

\* C4 as amended: at (x>0, y>0) with a land up-neighbor, the flag is false
\* whatever the left-neighbor bears; the left-neighbor decides only on the
\* first row, where the up-neighbor is absent.
C4_LandUpYieldsFalse ==
  /\ step = "water" /\ cx > 0 /\ cy > 0 /\ UpOfLast.kind = "Land" =>
       adjacent_vegetation = FALSE
  /\ step = "water" /\ cx > 0 /\ cy = 0 /\ IsWaterWith(LeftOfLast, veg_type) =>
       adjacent_vegetation = TRUE

C4_Witness ==
  /\ step = "water" /\ cx > 0 /\ cy > 0
  /\ UpOfLast.kind = "Land"
  /\ IsWaterWith(LeftOfLast, veg_type)
  /\ adjacent_vegetation = FALSE

\* the bands whose inclusive test min <= d <= max holds of depth d
Matching(d) == { b \in 1..Len(DEPTH_RANGES) : InRange(d, DEPTH_RANGES[b]) }
InDepthRange(d) == d >= DEPTH_MIN * DepthUnit /\ d <= DEPTH_MAX * DepthUnit
\* a depth at which two consecutive bands meet (5, 7 and 10)
SharedBoundary(d) ==
  \E b \in 1..(Len(DEPTH_RANGES) - 1) :
    d = DEPTH_RANGES[b].max * DepthUnit /\ d = DEPTH_RANGES[b + 1].min * DepthUnit

\* C5 as claimed: every depth of [DEPTH_MIN, DEPTH_MAX] satisfies the
\* inclusive test of exactly one band.
C5_ExactlyOneBand ==
  pc \in {"water", "banded"} /\ InDepthRange(depth) =>
    Cardinality(Matching(depth)) = 1

\* C5 as amended: every depth of [DEPTH_MIN, DEPTH_MAX] satisfies the
\* inclusive test of at least one band; of exactly one, except at a boundary
\* shared by two bands (5, 7, 10), where both bands match and depth_range
\* returns the first of them.
C5_OneBandOrSharedBoundary ==
  pc = "banded" /\ InDepthRange(depth) =>
    /\ Matching(depth) # {}
    /\ band \in Matching(depth) /\ \A b \in Matching(depth) : band <= b
    /\ Cardinality(Matching(depth)) = IF SharedBoundary(depth) THEN 2 ELSE 1
    /\ Matching(depth) \subseteq {band, band + 1}

C5_Witness ==
  /\ pc = "banded" /\ depth = 5 * DepthUnit
  /\ Matching(depth) = {1, 2} /\ band = 1

\* C6: a water cell at (0,0) gets adjacent = false; on the first row with
\* x>0 only the left neighbor is looked up and decides; in the first column
\* with y>0 only the up neighbor is looked up and decides.
C6_BoundaryAdjacency ==
  step = "water" =>
    /\ cx = 0 /\ cy = 0 => adjacent_vegetation = FALSE /\ lookups = {}
    /\ cx > 0 /\ cy = 0 =>
         /\ lookups = {cx - 1}
         /\ ~IsVegetatedWater(LeftOfLast) => ~adjacent_vegetation
         /\ IsWaterWith(LeftOfLast, veg_type) => adjacent_vegetation
    /\ cx = 0 /\ cy > 0 =>
         /\ lookups = {(cy - 1) * width}
         /\ ~IsVegetatedWater(UpOfLast) => ~adjacent_vegetation
         /\ IsWaterWith(UpOfLast, veg_type) => adjacent_vegetation

C6_Witness ==
  /\ step = "water" /\ cx = 0 /\ cy > 0
  /\ lookups = {(cy - 1) * width}
  /\ IsWaterWith(UpOfLast, veg_type) /\ adjacent_vegetation

\* C7: a sample n of [-1, 1] is land exactly when n < -0.5; otherwise its
\* depth is (n + 0.5) / 1.5 * 15, lies in [DEPTH_MIN, DEPTH_MAX] and is held
\* by the band depth_range finds: "Depth range must exist" never aborts.
C7_ClassifierTotal ==
  /\ panic = "none"
  /\ pc \in {"land", "water", "banded"} =>
       ((pc = "land") <=> (2 * noise_value < -Res))
  /\ pc \in {"water", "banded"} =>
       /\ depth * Res = (2 * noise_value + Res) * 5 * DepthUnit
       /\ InDepthRange(depth)
  /\ pc = "banded" =>
       /\ band \in 1..Len(DEPTH_RANGES)
       /\ InRange(depth, DEPTH_RANGES[band])

C7_Witness ==
  /\ pc = "banded" /\ noise_value = NOISE_MAX * Res
  /\ depth = DEPTH_MAX * DepthUnit /\ band = Len(DEPTH_RANGES)

\* C8: generate returns width*height regions, cell (x, y) at index
\* y*width + x; Display writes height rows of width glyphs, each row ended
\* by one line terminator, the glyph of row r, column c being that of the
\* region at index r*width + c; "Indexed element must exist" never aborts.
C8_Dimensions ==
  /\ panic = "none"
  /\ pc = "gen" => Len(data) = (y * width) + x
  /\ step # "none" => Len(data) - 1 = (cy * width) + cx
  /\ pc \in {"render", "done"} =>
       /\ Len(data) = width * height
       /\ Len(out) = ry * (width + 1)
       /\ \A r \in 0..(ry - 1) :
            /\ out[(r * (width + 1)) + width + 1] = "\n"
            /\ \A c \in 0..(width - 1) :
                 /\ out[(r * (width + 1)) + c + 1] # "\n"
                 /\ out[(r * (width + 1)) + c + 1] = Glyph(At(data, (r * width) + c))
  /\ pc = "done" => ry = height

C8_Witness ==
  /\ pc = "done" /\ width = 2 /\ height = 2
  /\ Len(data) = 4 /\ Len(out) = 6
  /\ out[1] # out[2] /\ out[3] = "\n" /\ out[6] = "\n"

\* C10: cells are emitted in row-major order, and every index get_adjacent
\* computes for cell (x, y) is (y-1)*width + x or y*width + x - 1, below the
\* number of regions emitted so far; get_adjacent never aborts.
C10_RasterCausality ==
  /\ panic # "Indexed element must exist"
  /\ pc = "gen" /\ y < height => x <= width /\ Len(data) = (y * width) + x
  /\ \A i \in lookups :
       /\ i \in {((cy - 1) * width) + cx, (cy * width) + cx - 1}
       /\ i >= 0 /\ i < (cy * width) + cx
  /\ step = "water" => (cy * width) + cx = Len(data) - 1

C10_Witness ==
  /\ step = "water" /\ cx > 0 /\ cy > 0
  /\ lookups = {((cy - 1) * width) + cx, (cy * width) + cx - 1}
  /\ Cardinality(lookups) = 2

\* C9: two independent runs of TopographicMap::new on the same (seed, width,
\* height, scale) return the same region sequence and render the same text.
C9_Deterministic ==
  pc = "runs" =>
    /\ runs[1].pc = "done" /\ runs[2].pc = "done" =>
         runs[1].data = runs[2].data /\ runs[1].out = runs[2].out
    /\ runs[1].pc # "gen" /\ runs[2].pc # "gen" =>
         runs[1].data = runs[2].data /\ runs[1].rng = runs[2].rng

C9_Witness ==
  /\ pc = "runs" /\ runs[1].pc = "done" /\ runs[2].pc = "done"
  /\ Len(runs[1].data) = 2
  /\ IsVegetatedWater(runs[1].data[1]) /\ IsVegetatedWater(runs[1].data[2])
  /\ runs[1].data = runs[2].data
  /\ runs[1].out = runs[2].out /\ Len(runs[2].out) > 2

\* C11: after any sequence of FishSimulation::step calls, every fish that is
\* alive has age at most 10, and a fish that has died is not stepped again:
\* it stays dead at the same place of the vector with its age unchanged.
C11_AliveYoungDeadFrozen ==
  /\ [](\A i \in 1..Len(fish) : fish[i].alive => fish[i].age <= 10)
  /\ [][ \A i \in 1..Len(fish) :
           ~fish[i].alive => i <= Len(fish') /\ fish'[i] = fish[i] ]_vars

C11_Witness ==
  /\ pc = "fish"
  /\ \E i, j \in 1..Len(fish) :
       /\ fish[i].alive /\ fish[i].age = 10
       /\ ~fish[j].alive /\ fish[j].age = 1 /\ fish[j].id < fish[i].id
  /\ Len(history) = 12

====
